---- MODULE Spec2Model ----
(***************************************************************************)
(* Model of the My Stop bus tracker (src/vst_mystop.py): the BusTracker    *)
(* object (SessionInfo, BusInfo), its request methods login_user,          *)
(* vehicledata, recentvehicledata and student_scans, and the control flow  *)
(* of check_bus_status / track_bus as run by main.                         *)
(*                                                                         *)
(* Optional values (Python None) are modelled as sequences: NULL is <<>>   *)
(* and a present value v is <<v>>.  Coordinates are integers in units of   *)
(* 1e-5 degree; distances are whole metres (the floor of the float the     *)
(* code computes, which preserves every comparison with the integer        *)
(* threshold 82).                                                          *)
(***************************************************************************)
EXTENDS Integers, Sequences, FiniteSets, TLC

VARIABLES
    pc,                 \* position of the caller: a track_bus position, or "api"
    session_id,         \* SessionInfo.session_id
    login_guid,         \* SessionInfo.login_guid
    record_id,          \* SessionInfo.record_id
    bus_id,             \* BusInfo.bus_id
    route_number,       \* BusInfo.route_number
    stop_latitude,      \* BusInfo.stop_latitude
    stop_longitude,     \* BusInfo.stop_longitude
    latitude,           \* track_bus local
    longitude,          \* track_bus local
    heading,            \* track_bus local
    logtime,            \* track_bus local
    distance_to_target, \* track_bus local
    ret,                \* value returned by the last method call (NULL when it raised)
    exc,                \* exception raised by the last method call, or "none"
    lastCall,           \* name of the last method called, or "none"
    lastResp,           \* what the server answered to the last call (summary)
    haversine_args,     \* arguments of the haversine call of the latest cycle, or NULL
    nVehicledata,       \* number of vehicledata calls issued so far (saturating)
    slept,              \* seconds of the last time.sleep since the last request, 0 if none
    config_school,      \* the school fields of the configuration, NULL when absent
    school_list,        \* main's school_list, NULL before it is assigned
    interrupted_at,     \* position at which KeyboardInterrupt was delivered, or "none"
    x_sid,              \* X-SID header of the last request, NULL when it carried none
    login_sid,          \* Some(SessionID) of the last login that stored a session, else NULL
    server              \* which answers the server gives: "any", "failing", "cooperating"

vars == <<pc, session_id, login_guid, record_id, bus_id, route_number,
          stop_latitude, stop_longitude, latitude, longitude, heading, logtime,
          distance_to_target, ret, exc, lastCall, lastResp, haversine_args,
          nVehicledata, slept, config_school, school_list, interrupted_at,
          x_sid, login_sid, server>>

-----------------------------------------------------------------------------
(* Optional values *)

NULL == <<>>

Some(v) == <<v>>

Val(o) == o[1]

NONE4 == <<NULL, NULL, NULL, NULL>>

(* Bound of the call counter. *)
MaxCount == 2

Min(a, b) == IF a < b THEN a ELSE b

-----------------------------------------------------------------------------
(* Program constants *)

TARGET_DISTANCE_METERS == 82

LOGIN_BACKOFF_SECONDS == 300

POLL_INTERVAL_SECONDS == 33

-----------------------------------------------------------------------------
(* GeoUtils *)

(* the largest r in lo..hi with r * r <= n, found by bisection *)
RECURSIVE ISqrtBetween(_, _, _)
ISqrtBetween(n, lo, hi) ==
    IF lo >= hi THEN lo
    ELSE LET mid == (lo + hi + 1) \div 2
         IN  IF mid <= n \div mid
             THEN ISqrtBetween(n, mid, hi)
             ELSE ISqrtBetween(n, lo, mid - 1)

(* math.sqrt, rounded down to an integer *)
ISqrt(n) == ISqrtBetween(n, 0, n)

Abs(x) == IF x < 0 THEN 0 - x ELSE x

(* math.cos(math.radians(lat)) in units of 1e-4, lat in units of 1e-5      *)
(* degree: the Taylor series 1 - x^2/2 + x^4/24 - x^6/720 on x in          *)
(* milliradians.                                                           *)
CosE4(lat) ==
    LET x  == (((Abs(lat) \div 100) * 1745) \div 100) \div 1000
        X2 == (x * x) \div 1000
    IN  10000 - 5 * X2 + (X2 * X2) \div 2400 - (((X2 * X2) \div 1000) * X2) \div 72000

(* (r * pi / 180 * 1e-5)^2 in units of 1e-4 m^2: the square of the metres  *)
(* one coordinate unit spans on a sphere of radius r = 6371000.            *)
METRES2_PER_UNIT2_E4 == 12364

(* variant: the arguments of atan2 are exchanged, c = pi - 2 sqrt(a) *)
haversine_distance_atan2_swapped(lat1, lon1, lat2, lon2) ==
    LET delta_phi    == lat2 - lat1
        delta_lambda == lon2 - lon1
        coscos       == (CosE4(lat1) * CosE4(lat2)) \div 10000
        a4           == delta_phi * delta_phi
                          + (coscos * delta_lambda * delta_lambda) \div 10000
    IN  20015086 - ISqrt((METRES2_PER_UNIT2_E4 * a4) \div 10000)

(* GeoUtils.haversine_distance on coordinates in units of 1e-5 degree,     *)
(* result in whole metres (rounded down).  For the nearby points the       *)
(* tracker compares (deltas below 1e-2 degree) sin(d/2)^2 = (d/2)^2 and    *)
(* atan2(sqrt(a), sqrt(1-a)) = sqrt(a) to well below a millimetre, so      *)
(*   a = (dphi/2)^2 + cos(phi1) cos(phi2) (dlambda/2)^2,  c = 2 sqrt(a).   *)
haversine_distance(lat1, lon1, lat2, lon2) ==
    LET delta_phi    == lat2 - lat1
        delta_lambda == lon2 - lon1
        coscos       == (CosE4(lat1) * CosE4(lat2)) \div 10000
        a4           == delta_phi * delta_phi
                          + (coscos * delta_lambda * delta_lambda) \div 10000
    IN  ISqrt((METRES2_PER_UNIT2_E4 * a4) \div 10000)

directions ==
    <<"N", "NNE", "NE", "ENE", "E", "ESE", "SE", "SSE",
      "S", "SSW", "SW", "WSW", "W", "WNW", "NW", "NNW", "N">>

(* variant: the bearing is not reduced modulo 360; Python wraps a negative *)
(* index from the end of the list and raises IndexError past its end       *)
direction_index_no_modulo(degrees) ==
    LET q == (Abs(degrees + 1125)) \div 2250
    IN  IF degrees + 1125 >= 0 THEN q ELSE IF q = 0 THEN 0 ELSE 17 - q

(* variant: the sectors start at the compass points instead of being       *)
(* centred on them                                                         *)
direction_index_no_offset(degrees) == (degrees % 36000) \div 2250

(* index = int((degrees + 11.25) % 360 / 22.5) on a bearing in units of    *)
(* 1e-2 degree; Python's % with a positive divisor is the floor modulus    *)
(* and int() truncates a non-negative float.                               *)
direction_index(degrees) == ((degrees + 1125) % 36000) \div 2250

(* GeoUtils.degrees_to_direction: directions[index], list indices start at *)
(* 0 and an index past the end raises IndexError.                          *)
degrees_to_direction(degrees) ==
    LET index == direction_index(degrees)
    IN  IF index \in 0..(Len(directions) - 1)
        THEN directions[index + 1] ELSE "IndexError"

-----------------------------------------------------------------------------
(* Server responses.  kind is what the HTTP exchange did, shape is what    *)
(* the JSON body of a 200 response looks like; the remaining fields are    *)
(* the values the body carries (NULL: key absent or JSON null).            *)

SessionBundles ==
    { <<NULL, NULL, NULL>>,
      <<Some("S1"), Some("G1"), Some("R1")>>,
      <<Some("S2"), Some("G2"), Some("R2")>> }

(* MatchedRoute: key absent, JSON null, or an object *)
Routes ==
    { <<"missing", NULL, NULL, NULL>>,
      <<"null", NULL, NULL, NULL>>,
      <<"present", NULL, NULL, NULL>>,
      <<"present", Some("R7"), Some(0), Some(0)>>,
      <<"present", Some("R7"), NULL, Some(0)>>,
      <<"present", Some("R7"), Some(0), NULL>> }

VehicleIds == {NULL, Some("V1")}

(* position samples <<Latitude, Longitude, Heading, LogTime>>; with the    *)
(* stop at (0, 0) the latitudes 73, 74 and 75 are 81, 82 and 83 metres away *)
Positions ==
    { <<NULL, NULL, NULL, NULL>>,
      <<Some(73), Some(0), Some(9000), Some("T1")>>,
      <<Some(74), Some(0), Some(9000), Some("T1")>>,
      <<Some(75), Some(0), Some(9000), Some("T1")>>,
      <<Some(73), Some(40), NULL, NULL>>,
      <<NULL, Some(0), Some(9000), Some("T1")>>,
      <<Some(73), NULL, Some(9000), Some("T1")>> }

LoginBody(act, sb, rt, vid, pos) ==
    [kind |-> "ok", shape |-> "ok", IsActive |-> act,
     SessionID |-> sb[1], LoginGUID |-> sb[2], RecordID |-> sb[3],
     RPVehicleId |-> vid, route_kind |-> rt[1], Route |-> rt[2],
     StopLatitude |-> rt[3], StopLongitude |-> rt[4],
     Latitude |-> pos[1], Longitude |-> pos[2],
     Heading |-> pos[3], LogTime |-> pos[4]]

BlankLogin ==
    LoginBody(FALSE, <<NULL, NULL, NULL>>, <<"missing", NULL, NULL, NULL>>,
              NULL, <<NULL, NULL, NULL, NULL>>)

(* transport_error: session.post raises (connection error, timeout);      *)
(* http_error: a 4xx/5xx status; bad_json: the body does not parse.        *)
LoginFailureKinds == {"transport_error", "http_error", "bad_json"}

(* data_null: the body is JSON null; no_students: Students absent, null or *)
(* empty; student_null: Students is [null]; no_mbd: MatchedBusData absent, *)
(* null or empty.                                                          *)
LoginBadShapes == {"data_null", "no_students", "student_null", "no_mbd"}

(* bodies whose matched bus is inactive: with and without the other fields *)
InactivePositions ==
    { <<NULL, NULL, NULL, NULL>>, <<Some(73), Some(0), Some(9000), Some("T1")>> }

LoginResponses ==
    {[BlankLogin EXCEPT !.kind = k] : k \in LoginFailureKinds}
    \cup {[BlankLogin EXCEPT !.shape = s] : s \in LoginBadShapes}
    \cup {LoginBody(TRUE, sb, rt, vid, pos) :
            sb \in SessionBundles, rt \in Routes,
            vid \in VehicleIds, pos \in Positions}
    \cup {LoginBody(FALSE, sb, rt, vid, pos) :
            sb \in SessionBundles, rt \in Routes,
            vid \in VehicleIds, pos \in InactivePositions}

VehicleBody(act, pos) ==
    [kind |-> "ok", shape |-> "ok", IsActive |-> act,
     Latitude |-> pos[1], Longitude |-> pos[2],
     Heading |-> pos[3], LogTime |-> pos[4]]

BlankVehicle == VehicleBody(FALSE, <<NULL, NULL, NULL, NULL>>)

(* status_error: any status other than 200 *)
VehicleFailureKinds == {"transport_error", "status_error", "bad_json"}

(* no_StuBusData: the key is absent; StuBusData_null: it is JSON null *)
VehicleBadShapes == {"no_StuBusData", "StuBusData_null"}

VehicleResponses ==
    {[BlankVehicle EXCEPT !.kind = k] : k \in VehicleFailureKinds}
    \cup {[BlankVehicle EXCEPT !.shape = s] : s \in VehicleBadShapes}
    \cup {VehicleBody(TRUE, pos) : pos \in Positions}
    \cup {VehicleBody(FALSE, pos) : pos \in InactivePositions}

(* Bound on the length of the position history of recentvehicledata. *)
MaxHistory == 3

(* an entry of BusData; HeadingDegrees in units of 1e-2 degree, NULL when  *)
(* the key is absent                                                       *)
HistoryEntries ==
    { [Latitude |-> Some(73), Longitude |-> Some(0),
       HeadingDegrees |-> Some(9000), LogTime |-> Some("T1")],
      [Latitude |-> Some(75), Longitude |-> Some(40),
       HeadingDegrees |-> Some(35900), LogTime |-> Some("T2")],
      [Latitude |-> NULL, Longitude |-> NULL,
       HeadingDegrees |-> NULL, LogTime |-> NULL] }

RECURSIVE SeqsUpTo(_, _)
SeqsUpTo(S, n) ==
    IF n = 0 THEN {<<>>}
    ELSE LET shorter == SeqsUpTo(S, n - 1)
         IN  shorter \cup {Append(h, e) : h \in shorter, e \in S}

Histories == SeqsUpTo(HistoryEntries, MaxHistory)

RecentFailureKinds == {"transport_error", "status_error", "bad_json"}

(* no_BusData: the body is empty or has no BusData key; BusData_null: the  *)
(* key is JSON null                                                        *)
RecentBadShapes == {"no_BusData", "BusData_null"}

RecentResponses ==
    {[kind |-> k, shape |-> "ok", BusData |-> <<>>] : k \in RecentFailureKinds}
    \cup {[kind |-> "ok", shape |-> s, BusData |-> <<>>] : s \in RecentBadShapes}
    \cup {[kind |-> "ok", shape |-> "ok", BusData |-> h] : h \in Histories}

(* the scan list at Students[0].StudentScans[0].Scans: a list, or NULL     *)
(* when the key holds JSON null                                            *)
ScanLists == {NULL, Some(<<>>), Some(<<"scan1">>), Some(<<"scan1", "scan2">>)}

ScansFailureKinds == {"transport_error", "status_error", "bad_json"}

(* mismatch: a key or index on the way to the scan list is missing *)
ScansResponses ==
    {[kind |-> k, shape |-> "ok", Scans |-> NULL] : k \in ScansFailureKinds}
    \cup {[kind |-> "ok", shape |-> "mismatch", Scans |-> NULL]}
    \cup {[kind |-> "ok", shape |-> "ok", Scans |-> sc] : sc \in ScanLists}

-----------------------------------------------------------------------------
(* The BusTracker object *)

Self ==
    [session_id |-> session_id, login_guid |-> login_guid, record_id |-> record_id,
     bus_id |-> bus_id, route_number |-> route_number,
     stop_latitude |-> stop_latitude, stop_longitude |-> stop_longitude]

(* BusTracker.__init__: SessionInfo() and BusInfo() with every field None *)
NewTracker ==
    [session_id |-> NULL, login_guid |-> NULL, record_id |-> NULL,
     bus_id |-> NULL, route_number |-> NULL,
     stop_latitude |-> NULL, stop_longitude |-> NULL]

Returned(self, value) == [self |-> self, ret |-> value, exc |-> "none"]

Raised(self, e) == [self |-> self, ret |-> NULL, exc |-> e]

(* variant: the session is invalidated together with the bus id *)
clear_bus_id_and_session(self) ==
    [self EXCEPT !.bus_id = NULL, !.session_id = NULL,
                 !.login_guid = NULL, !.record_id = NULL]

(* variant: the whole of BusInfo is reset, not the bus id alone *)
clear_bus_info(self) ==
    [self EXCEPT !.bus_id = NULL, !.route_number = NULL,
                 !.stop_latitude = NULL, !.stop_longitude = NULL]

(* self.bus_info.bus_id = None *)
clear_bus_id(self) == [self EXCEPT !.bus_id = NULL]

(* BusTracker._handle_api_error: log and reset the bus id *)
handle_api_error(self) == clear_bus_id(self)

(* variant: a matched bus counts as running whatever its flag says *)
login_isactive_ignored(resp) == TRUE

(* login_user: isactive = matched_bus_data.get("IsActive", False) *)
login_isactive(resp) == resp.IsActive

(* BusTracker.login_user on the tracker `self` with the server answering   *)
(* `resp`: the new tracker, the returned tuple and the exception raised.   *)
login_user(self, resp) ==
    IF resp.kind \in LoginFailureKinds
    THEN \* except requests.RequestException: ConnectionError and Timeout of
         \* post, HTTPError of raise_for_status, JSONDecodeError of json
         Returned(handle_api_error(self), NONE4)
    ELSE IF resp.shape = "data_null"
    THEN \* '"Students" not in None' raises TypeError: except (KeyError, TypeError)
         Returned(handle_api_error(self), NONE4)
    ELSE IF resp.shape = "no_students"
    THEN Returned(clear_bus_id(self), NONE4)
    ELSE IF resp.shape = "student_null"
    THEN \* None.get raises AttributeError, which no except clause names
         Raised(self, "AttributeError")
    ELSE IF resp.shape = "no_mbd"
    THEN Returned(clear_bus_id(self), NONE4)
    ELSE IF ~login_isactive(resp)
    THEN Returned(clear_bus_id(self), NONE4)
    ELSE LET s1 == [self EXCEPT !.session_id = resp.SessionID,
                                !.login_guid = resp.LoginGUID,
                                !.record_id = resp.RecordID,
                                !.bus_id = resp.RPVehicleId]
         IN  IF resp.route_kind = "null"
             THEN \* .get("MatchedRoute", {}) is None: None.get raises AttributeError
                  Raised(s1, "AttributeError")
             ELSE Returned([s1 EXCEPT !.route_number = resp.Route,
                                      !.stop_latitude = resp.StopLatitude,
                                      !.stop_longitude = resp.StopLongitude],
                           <<resp.Latitude, resp.Longitude, resp.Heading, resp.LogTime>>)

(* variant: a body that carries both coordinates counts as a running bus *)
vehicle_isactive_by_coordinates(resp) ==
    resp.Latitude # NULL /\ resp.Longitude # NULL

(* vehicledata: isactive = data["StuBusData"].get("IsActive", False) *)
vehicle_isactive(resp) == resp.IsActive

(* BusTracker.vehicledata *)
vehicledata(self, resp) ==
    IF resp.kind = "transport_error"
    THEN Raised(self, "ConnectionError")
    ELSE IF resp.kind = "status_error"
    THEN Returned(clear_bus_id(self), NONE4)
    ELSE IF resp.kind = "bad_json"
    THEN Raised(self, "JSONDecodeError")
    ELSE IF resp.shape = "no_StuBusData"
    THEN Raised(self, "KeyError")
    ELSE IF resp.shape = "StuBusData_null"
    THEN Raised(self, "AttributeError")
    ELSE IF ~vehicle_isactive(resp)
    THEN Returned(clear_bus_id(self), NONE4)
    ELSE Returned(self, <<resp.Latitude, resp.Longitude, resp.Heading, resp.LogTime>>)

(* BusTracker.recentvehicledata *)
recentvehicledata(self, resp) ==
    IF resp.kind = "transport_error"
    THEN Raised(self, "ConnectionError")
    ELSE IF resp.kind = "status_error"
    THEN Returned(clear_bus_id(self), NONE4)
    ELSE IF resp.kind = "bad_json"
    THEN Raised(self, "JSONDecodeError")
    ELSE IF resp.shape = "no_BusData"
    THEN Returned(clear_bus_id(self), NONE4)
    ELSE IF resp.shape = "BusData_null"
    THEN \* None[1]
         Raised(self, "TypeError")
    ELSE IF Len(resp.BusData) < 2
    THEN \* data.get("BusData")[1] past the end of the list
         Raised(self, "IndexError")
    ELSE LET bus_info == resp.BusData[2] IN
         IF bus_info.HeadingDegrees = NULL
         THEN Raised(self, "KeyError")
         ELSE Returned(self, <<bus_info.Latitude, bus_info.Longitude,
                               Some(degrees_to_direction(Val(bus_info.HeadingDegrees))),
                               bus_info.LogTime>>)

(* BusTracker.student_scans: a returned list l is Some(l), None is NULL *)
student_scans(self, resp) ==
    IF resp.kind = "transport_error"
    THEN Raised(self, "ConnectionError")
    ELSE IF resp.kind = "status_error"
    THEN Returned(self, Some(<<>>))
    ELSE IF resp.kind = "bad_json"
    THEN Raised(self, "JSONDecodeError")
    ELSE IF resp.shape = "mismatch"
    THEN \* except (KeyError, TypeError, IndexError)
         Returned(self, Some(<<>>))
    ELSE Returned(self, resp.Scans)

(* variant: the login GUID is sent in place of the session id *)
x_sid_header_login_guid(self) ==
    IF self.login_guid # NULL THEN self.login_guid ELSE NULL

(* the X-SID header of vehicledata, recentvehicledata and student_scans:   *)
(* set to the session id when that is not None, otherwise left out         *)
x_sid_header(self) ==
    IF self.session_id # NULL THEN self.session_id ELSE NULL

(* the login reached the assignments of the session fields: the server     *)
(* answered 200 with a first student whose matched bus is active           *)
login_stores_session(resp) ==
    resp.kind = "ok" /\ resp.shape = "ok" /\ resp.IsActive

-----------------------------------------------------------------------------
(* What the server answered, kept for the properties. *)

NoResp ==
    [kind |-> "none", shape |-> "none", IsActive |-> FALSE,
     route_kind |-> "none", rich |-> FALSE, sample |-> NONE4]

(* rich: the body carries a session id, a vehicle id and both coordinates; *)
(* sample: the position fields of the body as the server sent them         *)
LoginSummary(resp) ==
    [kind |-> resp.kind, shape |-> resp.shape, IsActive |-> resp.IsActive,
     route_kind |-> resp.route_kind,
     rich |-> /\ resp.SessionID # NULL /\ resp.RPVehicleId # NULL
              /\ resp.Latitude # NULL /\ resp.Longitude # NULL,
     sample |-> <<resp.Latitude, resp.Longitude, resp.Heading, resp.LogTime>>]

(* rich: the body carries both coordinates *)
VehicleSummary(resp) ==
    [kind |-> resp.kind, shape |-> resp.shape, IsActive |-> resp.IsActive,
     route_kind |-> "none",
     rich |-> resp.Latitude # NULL /\ resp.Longitude # NULL,
     sample |-> <<resp.Latitude, resp.Longitude, resp.Heading, resp.LogTime>>]

(* recentvehicledata has no activity flag: a history that has a second    *)
(* entry counts as a report of an active bus                               *)
RecentSummary(resp) ==
    [kind |-> resp.kind, shape |-> resp.shape,
     IsActive |-> resp.kind = "ok" /\ resp.shape = "ok" /\ Len(resp.BusData) >= 2,
     route_kind |-> "none",
     rich |-> Len(resp.BusData) >= 2,
     sample |-> IF Len(resp.BusData) >= 2
                THEN <<resp.BusData[2].Latitude, resp.BusData[2].Longitude,
                       resp.BusData[2].HeadingDegrees, resp.BusData[2].LogTime>>
                ELSE NONE4]

ScansSummary(resp) ==
    [kind |-> resp.kind, shape |-> resp.shape, IsActive |-> FALSE,
     route_kind |-> "none", rich |-> resp.Scans # NULL, sample |-> NONE4]

-----------------------------------------------------------------------------
(* main: the except clauses around track_bus *)

RequestExceptions == {"ConnectionError", "HTTPError", "JSONDecodeError"}

ValueErrors == {"ValueError", "JSONDecodeError"}

(* variant: main has no except KeyboardInterrupt clause *)
MainExit_no_interrupt_clause(e) ==
    IF e \in RequestExceptions \cup ValueErrors \cup {"TypeError"}
    THEN "fatal" ELSE "crashed"

(* except KeyboardInterrupt: logged as "Exiting on user request";          *)
(* except (ValueError, TypeError, requests.RequestException): logged as    *)
(* "Fatal error"; any other exception leaves main uncaught.                *)
MainExit(e) ==
    IF e = "KeyboardInterrupt"
    THEN "interrupted"
    ELSE IF e \in RequestExceptions \cup ValueErrors \cup {"TypeError"}
    THEN "fatal" ELSE "crashed"

-----------------------------------------------------------------------------
(* check_bus_status and track_bus *)

(* the loop condition of check_bus_status; bus ids are non-empty strings,  *)
(* so "not bus_id" is "bus_id is None"                                     *)
NotRunning(bid, lat, lon) == bid = NULL \/ lat = NULL \/ lon = NULL

(* variant: the stop longitude is not tested *)
KnownCoordinates_no_stop_longitude(slat, slon, lat, lon) ==
    slat # NULL /\ lat # NULL /\ lon # NULL

(* the condition under which track_bus computes the distance *)
KnownCoordinates(slat, slon, lat, lon) ==
    slat # NULL /\ slon # NULL /\ lat # NULL /\ lon # NULL

(* variant: the arrival is reported but the loop is not left *)
IsAtStop_no_break(d, target_distance_meters) == FALSE

(* variant: a distance equal to the threshold counts as arrived *)
IsAtStop_inclusive(d, target_distance_meters) ==
    d # NULL /\ Val(d) <= target_distance_meters

(* the arrival test of track_bus *)
IsAtStop(d, target_distance_meters) ==
    d # NULL /\ Val(d) < target_distance_meters

SetTracker(self) ==
    /\ session_id' = self.session_id
    /\ login_guid' = self.login_guid
    /\ record_id' = self.record_id
    /\ bus_id' = self.bus_id
    /\ route_number' = self.route_number
    /\ stop_latitude' = self.stop_latitude
    /\ stop_longitude' = self.stop_longitude

trackerVars ==
    <<session_id, login_guid, record_id, bus_id, route_number,
      stop_latitude, stop_longitude>>

localVars == <<latitude, longitude, heading, logtime>>

mainVars == <<config_school, school_list, interrupted_at>>

requestVars == <<x_sid, login_sid>>

(* The server answers in one of three regimes.  "any": every response.     *)
(* "failing": a login is refused, malformed or reports no running bus.     *)
(* "cooperating": a login reports an active bus with its vehicle id, its   *)
(* position and the stop coordinates, and a poll reports an active bus     *)
(* less than the target distance from the stop.                            *)
FailedLoginResponses ==
    {resp \in LoginResponses : ~login_stores_session(resp)}

CooperatingLoginResponses ==
    {resp \in LoginResponses :
        /\ login_stores_session(resp)
        /\ resp.route_kind = "present"
        /\ resp.StopLatitude # NULL /\ resp.StopLongitude # NULL
        /\ resp.RPVehicleId # NULL
        /\ resp.Latitude # NULL /\ resp.Longitude # NULL}

LoginAnswers(srv) ==
    CASE srv = "failing" -> FailedLoginResponses
      [] srv = "cooperating" -> CooperatingLoginResponses
      [] OTHER -> LoginResponses

FailedVehicleResponses ==
    {resp \in VehicleResponses :
        ~(resp.kind = "ok" /\ resp.shape = "ok" /\ vehicle_isactive(resp))}

CooperatingVehicleResponses(stop_lat, stop_lon) ==
    {resp \in VehicleResponses :
        /\ resp.kind = "ok" /\ resp.shape = "ok" /\ vehicle_isactive(resp)
        /\ resp.Latitude # NULL /\ resp.Longitude # NULL
        /\ (stop_lat # NULL /\ stop_lon # NULL) =>
              haversine_distance(Val(resp.Latitude), Val(resp.Longitude),
                                 Val(stop_lat), Val(stop_lon))
                < TARGET_DISTANCE_METERS}

VehicleAnswers(srv, stop_lat, stop_lon) ==
    CASE srv = "failing" -> FailedVehicleResponses
      [] srv = "cooperating" -> CooperatingVehicleResponses(stop_lat, stop_lon)
      [] OTHER -> VehicleResponses

(* check_bus_status: latitude, longitude, heading, logtime = login_user(), *)
(* then the test of the while loop                                         *)
CheckBusStatusLogin ==
    /\ pc = "login"
    /\ \E resp \in LoginAnswers(server) :
         LET r == login_user(Self, resp) IN
           /\ SetTracker(r.self)
           /\ ret' = r.ret
           /\ exc' = r.exc
           /\ lastCall' = "login_user"
           /\ lastResp' = LoginSummary(resp)
           /\ x_sid' = NULL
           /\ login_sid' = IF login_stores_session(resp)
                           THEN Some(resp.SessionID) ELSE login_sid
           /\ slept' = 0
           /\ IF r.exc # "none"
              THEN /\ pc' = MainExit(r.exc)
                   /\ UNCHANGED localVars
              ELSE /\ latitude' = r.ret[1]
                   /\ longitude' = r.ret[2]
                   /\ heading' = r.ret[3]
                   /\ logtime' = r.ret[4]
                   /\ pc' = IF NotRunning(r.self.bus_id, r.ret[1], r.ret[2])
                            THEN "sleep300" ELSE "eval"
    /\ UNCHANGED <<distance_to_target, haversine_args, nVehicledata, mainVars, server>>

(* check_bus_status: time.sleep(300) in the body of the while loop *)
CheckBusStatusSleep ==
    /\ pc = "sleep300"
    /\ slept' = LOGIN_BACKOFF_SECONDS
    /\ pc' = "login"
    /\ UNCHANGED <<trackerVars, localVars, distance_to_target, ret, exc,
                   lastCall, lastResp, haversine_args, nVehicledata, mainVars,
                   requestVars, server>>

(* track_bus: the distance of a cycle and the arrival test.  A None that   *)
(* reached haversine_distance would raise TypeError in math.radians.       *)
TrackBusDistance ==
    /\ pc = "eval"
    /\ IF KnownCoordinates(stop_latitude, stop_longitude, latitude, longitude)
       THEN /\ haversine_args' = <<latitude, longitude, stop_latitude, stop_longitude>>
            /\ IF \E i \in 1..4 : haversine_args'[i] = NULL
               THEN /\ exc' = "TypeError"
                    /\ pc' = MainExit("TypeError")
                    /\ UNCHANGED distance_to_target
               ELSE /\ exc' = "none"
                    /\ distance_to_target' =
                         Some(haversine_distance(Val(latitude), Val(longitude),
                                                 Val(stop_latitude), Val(stop_longitude)))
                    /\ pc' = IF IsAtStop(distance_to_target', TARGET_DISTANCE_METERS)
                             THEN "done" ELSE "sleep33"
       ELSE /\ haversine_args' = NULL
            /\ distance_to_target' = NULL
            /\ exc' = "none"
            /\ pc' = IF IsAtStop(distance_to_target', TARGET_DISTANCE_METERS)
                     THEN "done" ELSE "sleep33"
    /\ UNCHANGED <<trackerVars, localVars, ret, lastCall, lastResp,
                   nVehicledata, slept, mainVars,
                   requestVars, server>>

(* variant: the poll follows the cycle without a wait *)
TrackBusSleep_no_wait ==
    /\ pc = "sleep33"
    /\ pc' = "vehicledata"
    /\ UNCHANGED <<trackerVars, localVars, distance_to_target, ret, exc,
                   lastCall, lastResp, haversine_args, nVehicledata, slept,
                   mainVars,
                   requestVars, server>>

(* track_bus: time.sleep(33) *)
TrackBusSleep ==
    /\ pc = "sleep33"
    /\ slept' = POLL_INTERVAL_SECONDS
    /\ pc' = "vehicledata"
    /\ UNCHANGED <<trackerVars, localVars, distance_to_target, ret, exc,
                   lastCall, lastResp, haversine_args, nVehicledata, mainVars,
                   requestVars, server>>

(* track_bus: latitude, longitude, heading, logtime = self.vehicledata() *)
TrackBusPoll ==
    /\ pc = "vehicledata"
    /\ \E resp \in VehicleAnswers(server, stop_latitude, stop_longitude) :
         LET r == vehicledata(Self, resp) IN
           /\ SetTracker(r.self)
           /\ ret' = r.ret
           /\ exc' = r.exc
           /\ lastCall' = "vehicledata"
           /\ lastResp' = VehicleSummary(resp)
           /\ x_sid' = x_sid_header(Self)
           /\ UNCHANGED login_sid
           /\ slept' = 0
           /\ IF r.exc # "none"
              THEN /\ pc' = MainExit(r.exc)
                   /\ UNCHANGED localVars
              ELSE /\ latitude' = r.ret[1]
                   /\ longitude' = r.ret[2]
                   /\ heading' = r.ret[3]
                   /\ logtime' = r.ret[4]
                   /\ pc' = "eval"
    /\ nVehicledata' = Min(nVehicledata + 1, MaxCount)
    /\ UNCHANGED <<distance_to_target, haversine_args, mainVars, server>>

(* main after setup, with a configuration that holds the school fields:   *)
(* BusTracker(config) and track_bus(82) about to start                     *)
InitTrackBus ==
    /\ pc = "login"
    /\ session_id = NewTracker.session_id
    /\ login_guid = NewTracker.login_guid
    /\ record_id = NewTracker.record_id
    /\ bus_id = NewTracker.bus_id
    /\ route_number = NewTracker.route_number
    /\ stop_latitude = NewTracker.stop_latitude
    /\ stop_longitude = NewTracker.stop_longitude
    /\ latitude = NULL
    /\ longitude = NULL
    /\ heading = NULL
    /\ logtime = NULL
    /\ distance_to_target = NULL
    /\ ret = NULL
    /\ exc = "none"
    /\ lastCall = "none"
    /\ lastResp = NoResp
    /\ haversine_args = NULL
    /\ nVehicledata = 0
    /\ slept = 0
    /\ config_school = Some("S1")
    /\ school_list = NULL
    /\ interrupted_at = "none"
    /\ x_sid = NULL
    /\ login_sid = NULL

Init == InitTrackBus /\ server = "any"

Next ==
    \/ CheckBusStatusLogin
    \/ CheckBusStatusSleep
    \/ TrackBusDistance
    \/ TrackBusSleep
    \/ TrackBusPoll

Spec == Init /\ [][Next]_vars

-----------------------------------------------------------------------------
(* SchoolService and the whole of main: setup, the operator's interrupt    *)
(* and requests that are never answered                                    *)

(* the entries of the directory, named by their Account; each carries the  *)
(* Serial, ServiceUrl, Latitude and Longitude that select_school reads     *)
SchoolLists == {<<>>, <<"S1">>, <<"S1", "S2">>}

(* http_error: raise_for_status on a 4xx or 5xx status *)
SchoolFailureKinds == {"transport_error", "http_error", "bad_json"}

(* data_null: the body is JSON null; no_Clients: an object without the key *)
SchoolBadShapes == {"data_null", "no_Clients"}

SchoolResponses ==
    {[kind |-> k, shape |-> "ok", Clients |-> <<>>] : k \in SchoolFailureKinds}
    \cup {[kind |-> "ok", shape |-> s, Clients |-> <<>>] : s \in SchoolBadShapes}
    \cup {[kind |-> "ok", shape |-> "ok", Clients |-> l] : l \in SchoolLists}

(* SchoolService.get_all_school_list: the returned list and the exception  *)
(* raised                                                                  *)
get_all_school_list(resp) ==
    IF resp.kind \in SchoolFailureKinds
    THEN \* except requests.RequestException: ConnectionError and Timeout of
         \* get, HTTPError of raise_for_status, JSONDecodeError of json
         [ret |-> Some(<<>>), exc |-> "none"]
    ELSE IF resp.shape = "data_null"
    THEN \* '"Clients" in None' raises TypeError, which the except does not name
         [ret |-> NULL, exc |-> "TypeError"]
    ELSE IF resp.shape = "no_Clients"
    THEN [ret |-> Some(<<>>), exc |-> "none"]
    ELSE [ret |-> Some(resp.Clients), exc |-> "none"]

(* rich: the directory lists a school *)
SchoolSummary(resp) ==
    [kind |-> resp.kind, shape |-> resp.shape, IsActive |-> FALSE,
     route_kind |-> "none", rich |-> resp.Clients # <<>>, sample |-> NONE4,
     Clients |-> resp.Clients]

(* variant: only None counts as no list *)
Falsy_only_none(l) == l = NULL

(* "not school_list": None or the empty list *)
Falsy(l) == l = NULL \/ l = Some(<<>>)

(* Bound on the numbers the operator types at the prompt of select_school. *)
MaxChoice == 3

(* what the operator may type at the prompt; an answer that int() rejects  *)
(* prompts again as a number out of range does                             *)
Choices == 0..MaxChoice

(* the timeout each call site passes to requests, NULL where it passes none *)
REQUEST_TIMEOUT_SECONDS == 10

get_all_school_list_timeout == Some(REQUEST_TIMEOUT_SECONDS)

login_user_timeout == Some(REQUEST_TIMEOUT_SECONDS)

vehicledata_timeout == NULL

(* the timeout of the request issued at a position of main *)
timeout_at(p) ==
    CASE p = "school_list" -> get_all_school_list_timeout
      [] p = "login" -> login_user_timeout
      [] p = "vehicledata" -> vehicledata_timeout

(* the method called at a position of main *)
call_at(p) ==
    CASE p = "school_list" -> "get_all_school_list"
      [] p = "login" -> "login_user"
      [] p = "vehicledata" -> "vehicledata"

(* positions at which main is running *)
Running ==
    {"setup", "school_list", "select", "login", "sleep300", "eval", "sleep33",
     "vehicledata", "hung"}

(* main up to the test of the school fields of the configuration *)
MainSetup ==
    /\ pc = "setup"
    /\ pc' = IF config_school = NULL THEN "school_list" ELSE "login"
    /\ UNCHANGED <<trackerVars, localVars, distance_to_target, ret, exc,
                   lastCall, lastResp, haversine_args, nVehicledata, slept,
                   mainVars,
                   requestVars, server>>

(* main: school_list = SchoolService.get_all_school_list() and the test    *)
(* that follows it                                                         *)
MainSchoolList ==
    /\ pc = "school_list"
    /\ \E resp \in SchoolResponses :
         LET r == get_all_school_list(resp) IN
           /\ ret' = r.ret
           /\ exc' = r.exc
           /\ lastCall' = "get_all_school_list"
           /\ lastResp' = SchoolSummary(resp)
           /\ IF r.exc # "none"
              THEN /\ pc' = MainExit(r.exc)
                   /\ UNCHANGED school_list
              ELSE /\ school_list' = r.ret
                   /\ pc' = IF Falsy(r.ret) THEN "no_schools" ELSE "select"
    /\ UNCHANGED <<trackerVars, localVars, distance_to_target, haversine_args,
                   nVehicledata, slept, config_school, interrupted_at,
                   requestVars, server>>

(* main: school_info = SchoolService.select_school(school_list), one       *)
(* answer of the operator; a valid choice updates and saves the            *)
(* configuration and track_bus starts, any other answer prompts again      *)
MainSelectSchool ==
    /\ pc = "select"
    /\ IF Falsy(school_list)
       THEN /\ pc' = "no_school_selected"
            /\ UNCHANGED config_school
       ELSE \E choice \in Choices :
              IF 1 <= choice /\ choice <= Len(Val(school_list))
              THEN /\ config_school' = Some(Val(school_list)[choice])
                   /\ pc' = "login"
              ELSE UNCHANGED <<pc, config_school>>
    /\ UNCHANGED <<trackerVars, localVars, distance_to_target, ret, exc,
                   lastCall, lastResp, haversine_args, nVehicledata, slept,
                   school_list, interrupted_at,
                   requestVars, server>>

(* KeyboardInterrupt delivered while main runs: no except clause below     *)
(* main names it, so it reaches the handlers of main                       *)
Interrupt ==
    /\ pc \in Running
    /\ interrupted_at' = pc
    /\ exc' = "KeyboardInterrupt"
    /\ pc' = MainExit("KeyboardInterrupt")
    /\ UNCHANGED <<trackerVars, localVars, distance_to_target, ret, lastCall,
                   lastResp, haversine_args, nVehicledata, slept,
                   config_school, school_list,
                   requestVars, server>>

(* the server never answers a request that was passed no timeout: the call *)
(* blocks.  Where a timeout is passed requests raises Timeout, which is    *)
(* the transport_error answer of the call.                                 *)
RequestUnanswered ==
    /\ pc \in {"school_list", "login", "vehicledata"}
    /\ timeout_at(pc) = NULL
    /\ pc' = "hung"
    /\ lastCall' = call_at(pc)
    /\ x_sid' = IF pc = "vehicledata" THEN x_sid_header(Self) ELSE NULL
    /\ UNCHANGED login_sid
    /\ lastResp' = [NoResp EXCEPT !.kind = "no_response"]
    /\ ret' = NULL
    /\ exc' = "none"
    /\ slept' = 0
    /\ nVehicledata' = IF pc = "vehicledata"
                       THEN Min(nVehicledata + 1, MaxCount) ELSE nVehicledata
    /\ UNCHANGED <<trackerVars, localVars, distance_to_target, haversine_args,
                   mainVars, server>>

(* the start of main, with or without the school fields in the             *)
(* configuration file                                                      *)
InitMain ==
    /\ pc = "setup"
    /\ session_id = NewTracker.session_id
    /\ login_guid = NewTracker.login_guid
    /\ record_id = NewTracker.record_id
    /\ bus_id = NewTracker.bus_id
    /\ route_number = NewTracker.route_number
    /\ stop_latitude = NewTracker.stop_latitude
    /\ stop_longitude = NewTracker.stop_longitude
    /\ latitude = NULL
    /\ longitude = NULL
    /\ heading = NULL
    /\ logtime = NULL
    /\ distance_to_target = NULL
    /\ ret = NULL
    /\ exc = "none"
    /\ lastCall = "none"
    /\ lastResp = NoResp
    /\ haversine_args = NULL
    /\ nVehicledata = 0
    /\ slept = 0
    /\ config_school \in {NULL, Some("S1")}
    /\ school_list = NULL
    /\ interrupted_at = "none"
    /\ x_sid = NULL
    /\ login_sid = NULL
    /\ server = "any"

(* the steps main takes by itself *)
NextProgram ==
    \/ MainSetup
    \/ MainSchoolList
    \/ MainSelectSchool
    \/ CheckBusStatusLogin
    \/ CheckBusStatusSleep
    \/ TrackBusDistance
    \/ TrackBusSleep
    \/ TrackBusPoll
    \/ RequestUnanswered

NextMain == NextProgram \/ Interrupt

SpecMain == InitMain /\ [][NextMain]_vars

(* track_bus of a configured main, with requests that may stay            *)
(* unanswered and an operator who never interrupts                         *)
NextTracking ==
    \/ CheckBusStatusLogin
    \/ CheckBusStatusSleep
    \/ TrackBusDistance
    \/ TrackBusSleep
    \/ TrackBusPoll
    \/ RequestUnanswered

(* the interpreter keeps running the program while it has a step to take *)
FairSpec == Init /\ [][NextTracking]_vars /\ WF_vars(NextTracking)

(* track_bus against a server that fails at first and may start to         *)
(* cooperate at any moment, for good                                       *)
ServerCooperates ==
    /\ server = "failing"
    /\ server' = "cooperating"
    /\ UNCHANGED <<pc, trackerVars, localVars, distance_to_target, ret, exc,
                   lastCall, lastResp, haversine_args, nVehicledata, slept,
                   mainVars, requestVars>>

InitCoop == InitTrackBus /\ server = "failing"

NextCoop == Next \/ ServerCooperates

(* weak fairness on the steps of the tracker, none on the server *)
FairCoop == InitCoop /\ [][NextCoop]_vars /\ WF_vars(Next)

-----------------------------------------------------------------------------
(* The methods of one BusTracker called in any order by a caller that      *)
(* keeps the object after a call has raised.                               *)

ApiFrame ==
    UNCHANGED <<pc, localVars, distance_to_target, haversine_args, slept, mainVars, server>>

ApiLoginUser ==
    /\ pc = "api"
    /\ \E resp \in LoginResponses :
         LET r == login_user(Self, resp) IN
           /\ SetTracker(r.self)
           /\ ret' = r.ret
           /\ exc' = r.exc
           /\ lastCall' = "login_user"
           /\ lastResp' = LoginSummary(resp)
           /\ x_sid' = NULL
           /\ login_sid' = IF login_stores_session(resp)
                           THEN Some(resp.SessionID) ELSE login_sid
    /\ UNCHANGED nVehicledata
    /\ ApiFrame

ApiVehicledata ==
    /\ pc = "api"
    /\ \E resp \in VehicleResponses :
         LET r == vehicledata(Self, resp) IN
           /\ SetTracker(r.self)
           /\ ret' = r.ret
           /\ exc' = r.exc
           /\ lastCall' = "vehicledata"
           /\ lastResp' = VehicleSummary(resp)
           /\ x_sid' = x_sid_header(Self)
           /\ UNCHANGED login_sid
    /\ nVehicledata' = Min(nVehicledata + 1, MaxCount)
    /\ ApiFrame

ApiRecentvehicledata ==
    /\ pc = "api"
    /\ \E resp \in RecentResponses :
         LET r == recentvehicledata(Self, resp) IN
           /\ SetTracker(r.self)
           /\ ret' = r.ret
           /\ exc' = r.exc
           /\ lastCall' = "recentvehicledata"
           /\ lastResp' = RecentSummary(resp)
           /\ x_sid' = x_sid_header(Self)
           /\ UNCHANGED login_sid
    /\ UNCHANGED nVehicledata
    /\ ApiFrame

ApiStudentScans ==
    /\ pc = "api"
    /\ \E resp \in ScansResponses :
         LET r == student_scans(Self, resp) IN
           /\ SetTracker(r.self)
           /\ ret' = r.ret
           /\ exc' = r.exc
           /\ lastCall' = "student_scans"
           /\ lastResp' = ScansSummary(resp)
           /\ x_sid' = x_sid_header(Self)
           /\ UNCHANGED login_sid
    /\ UNCHANGED nVehicledata
    /\ ApiFrame

InitApi ==
    /\ pc = "api"
    /\ session_id = NewTracker.session_id
    /\ login_guid = NewTracker.login_guid
    /\ record_id = NewTracker.record_id
    /\ bus_id = NewTracker.bus_id
    /\ route_number = NewTracker.route_number
    /\ stop_latitude = NewTracker.stop_latitude
    /\ stop_longitude = NewTracker.stop_longitude
    /\ latitude = NULL
    /\ longitude = NULL
    /\ heading = NULL
    /\ logtime = NULL
    /\ distance_to_target = NULL
    /\ ret = NULL
    /\ exc = "none"
    /\ lastCall = "none"
    /\ lastResp = NoResp
    /\ haversine_args = NULL
    /\ nVehicledata = 0
    /\ slept = 0
    /\ config_school = Some("S1")
    /\ school_list = NULL
    /\ interrupted_at = "none"
    /\ x_sid = NULL
    /\ login_sid = NULL
    /\ server = "any"

NextApi ==
    \/ ApiLoginUser
    \/ ApiVehicledata
    \/ ApiRecentvehicledata
    \/ ApiStudentScans

SpecApi == InitApi /\ [][NextApi]_vars

-----------------------------------------------------------------------------
(* The functions of GeoUtils applied to one input each. *)

(* Bound on the whole turns a bearing lies below 0 or above 360. *)
MaxTurns == 1

(* bearings in steps of a quarter of a degree: every sector boundary       *)
(* (a multiple of 11.25) and every whole degree is one of them             *)
Bearings == {25 * i : i \in (0 - MaxTurns * 1440)..((MaxTurns + 1) * 1440)}

(* the first point of a pair: the stops of the model, a mid latitude, the  *)
(* poles and the antimeridian                                              *)
GeoPoints ==
    { <<0, 0>>, <<73, 0>>, <<75, 40>>, <<0 - 75, 0 - 40>>,
      <<4012345, 0 - 7512345>>, <<0 - 3385000, 15120000>>,
      <<9000000, 0>>, <<0 - 9000000, 18000000>>, <<0, 0 - 18000000>> }

(* how far the second point lies from the first on each axis *)
GeoOffsets == {0 - 74, 0 - 1, 0, 1, 73, 75}

GeoFrame ==
    UNCHANGED <<session_id, login_guid, record_id, bus_id, route_number,
                stop_latitude, stop_longitude, latitude, longitude, heading,
                logtime, lastResp, nVehicledata, slept, mainVars,
                   requestVars, server>>

(* a caller passes a bearing to GeoUtils.degrees_to_direction *)
GeoDirection ==
    /\ pc = "degrees_to_direction"
    /\ ret' = Some(degrees_to_direction(Val(heading)))
    /\ lastCall' = "degrees_to_direction"
    /\ exc' = IF Val(ret') = "IndexError" THEN "IndexError" ELSE "none"
    /\ pc' = "returned"
    /\ UNCHANGED <<distance_to_target, haversine_args>>
    /\ GeoFrame

(* a caller passes two points to GeoUtils.haversine_distance *)
GeoDistance ==
    /\ pc = "haversine_distance"
    /\ haversine_args' = <<latitude, longitude, stop_latitude, stop_longitude>>
    /\ distance_to_target' =
         Some(haversine_distance(Val(latitude), Val(longitude),
                                 Val(stop_latitude), Val(stop_longitude)))
    /\ lastCall' = "haversine_distance"
    /\ pc' = "returned"
    /\ UNCHANGED <<ret, exc>>
    /\ GeoFrame

InitGeo ==
    /\ session_id = NULL
    /\ login_guid = NULL
    /\ record_id = NULL
    /\ bus_id = NULL
    /\ route_number = NULL
    /\ logtime = NULL
    /\ distance_to_target = NULL
    /\ ret = NULL
    /\ exc = "none"
    /\ lastCall = "none"
    /\ lastResp = NoResp
    /\ haversine_args = NULL
    /\ nVehicledata = 0
    /\ slept = 0
    /\ config_school = NULL
    /\ school_list = NULL
    /\ interrupted_at = "none"
    /\ x_sid = NULL
    /\ login_sid = NULL
    /\ server = "any"
    /\ \/ /\ pc = "degrees_to_direction"
          /\ heading \in {Some(d) : d \in Bearings}
          /\ latitude = NULL /\ longitude = NULL
          /\ stop_latitude = NULL /\ stop_longitude = NULL
       \/ /\ pc = "haversine_distance"
          /\ heading = NULL
          /\ \E p \in GeoPoints, dlat \in GeoOffsets, dlon \in GeoOffsets :
               /\ latitude = Some(p[1])
               /\ longitude = Some(p[2])
               /\ stop_latitude = Some(p[1] + dlat)
               /\ stop_longitude = Some(p[2] + dlon)

NextGeo ==
    \/ GeoDirection
    \/ GeoDistance

SpecGeo == InitGeo /\ [][NextGeo]_vars

-----------------------------------------------------------------------------
(* Properties *)

Terminated == pc \in {"done", "fatal", "crashed"}

(* the last answer reported a running bus *)
FetchReportedActive ==
    lastResp.kind = "ok" /\ lastResp.shape = "ok" /\ lastResp.IsActive

(* the last call was a position poll answered with IsActive false *)
PollInactive ==
    /\ lastCall = "vehicledata"
    /\ lastResp.kind = "ok" /\ lastResp.shape = "ok" /\ ~lastResp.IsActive

(* the last call was a position poll that yielded no sample: the bus went  *)
(* inactive or the request failed                                          *)
PollFailed ==
    \/ PollInactive
    \/ lastCall = "vehicledata" /\ lastResp.kind \in {"transport_error", "status_error"}

(* C1: a vehicledata poll that yields no sample (bus inactive or request   *)
(* failed) does not end track_bus, and the tracker issues no further       *)
(* vehicledata call after it: it is back in the login loop.                *)
C1_PollFailureReturnsToLogin ==
    [][ /\ PollFailed' => pc' \notin {"done", "fatal", "crashed"}
        /\ PollFailed => pc # "vehicledata" ]_vars

(* the latest sample and the stop are known and less than 82 metres apart *)
SampleWithinThreshold ==
    /\ latitude # NULL /\ longitude # NULL
    /\ stop_latitude # NULL /\ stop_longitude # NULL
    /\ haversine_distance(Val(latitude), Val(longitude),
                          Val(stop_latitude), Val(stop_longitude)) < 82

(* C2: ARRIVED is terminal: a cycle whose sample is within the threshold   *)
(* ends track_bus, no step (request or sleep) is taken after track_bus has *)
(* ended, and an arrival on the sample of the login has made no            *)
(* vehicledata call.                                                       *)
C2_ArrivedIsTerminal ==
    [][ /\ pc # "done"
        /\ (pc = "eval" /\ SampleWithinThreshold) => pc' = "done"
        /\ (pc' = "done" /\ lastCall' = "login_user") => nVehicledata' = 0 ]_vars

W_C2_ArrivedOnLoginSample ==
    pc = "done" /\ lastCall = "login_user" /\ nVehicledata = 0

(* C3: track_bus has arrived only if the distance of the latest cycle was  *)
(* computed from the latest sample and the stop coordinates and is         *)
(* strictly below 82 metres.                                               *)
C3_ArrivedOnlyBelowThreshold ==
    pc = "done" =>
        /\ distance_to_target # NULL
        /\ Val(distance_to_target) < 82
        /\ latitude # NULL /\ longitude # NULL
        /\ stop_latitude # NULL /\ stop_longitude # NULL
        /\ Val(distance_to_target) =
             haversine_distance(Val(latitude), Val(longitude),
                                Val(stop_latitude), Val(stop_longitude))

W_C3_ArrivedJustBelow ==
    pc = "done" /\ distance_to_target = Some(81)

(* C4: the vehicle id is defined only if the most recent login_user,       *)
(* vehicledata or recentvehicledata call reported the bus active: every    *)
(* call that could not confirm activity leaves bus_id absent.              *)
C4_BusIdOnlyIfActive ==
    (lastCall \in {"login_user", "vehicledata", "recentvehicledata"} /\ bus_id # NULL)
        => FetchReportedActive

(* C5: in a cycle of track_bus the haversine distance is computed only     *)
(* from four known coordinates; when one of them is unknown the cycle      *)
(* computes no distance and goes on to the poll wait.                      *)
C5_DistanceOnlyWhenKnown ==
    [][ pc = "eval" =>
          IF /\ latitude # NULL /\ longitude # NULL
             /\ stop_latitude # NULL /\ stop_longitude # NULL
          THEN /\ haversine_args' = <<latitude, longitude, stop_latitude, stop_longitude>>
               /\ distance_to_target' # NULL
          ELSE /\ haversine_args' = NULL
               /\ distance_to_target' = NULL
               /\ pc' = "sleep33" ]_vars

W_C5_CycleSkipped ==
    /\ pc = "sleep33"
    /\ latitude # NULL /\ longitude # NULL
    /\ stop_latitude # NULL /\ stop_longitude = NULL
    /\ distance_to_target = NULL /\ haversine_args = NULL

(* C6: a login of check_bus_status leaves the loop only with a vehicle id  *)
(* and a latitude and longitude; every other login outcome goes to the     *)
(* 300-second wait, which is followed by another login, and never ends the *)
(* tracker.                                                                *)
C6_LoginLoopUnbounded ==
    [][ /\ pc = "login" =>
             /\ pc' = "eval" =>
                  (bus_id' # NULL /\ latitude' # NULL /\ longitude' # NULL)
             /\ pc' # "eval" => pc' = "sleep300"
        /\ pc = "sleep300" => (pc' = "login" /\ slept' = 300) ]_vars

(* C7: after a vehicledata answer with IsActive false the tracker neither  *)
(* sleeps nor polls again before its next login, and does not end.         *)
C7_InactivePollReloginsAtOnce ==
    [][ PollInactive =>
          /\ pc \notin {"sleep33", "sleep300", "vehicledata"}
          /\ pc' \notin {"fatal", "crashed"} ]_vars

(* the last call was a login_user or vehicledata that reported an inactive *)
(* bus or failed with a bad status or a transport error                    *)
CallInactiveOrFailed ==
    /\ lastCall \in {"login_user", "vehicledata"}
    /\ \/ lastResp.kind \in {"transport_error", "http_error", "status_error"}
       \/ lastResp.kind = "ok" /\ lastResp.shape = "ok" /\ ~lastResp.IsActive

LoginInactive ==
    /\ lastCall = "login_user"
    /\ lastResp.kind = "ok" /\ lastResp.shape = "ok" /\ ~lastResp.IsActive

(* C9: a login whose matched bus is not active leaves the vehicle id       *)
(* absent and returns four nulls, whatever else the response carries.      *)
C9_InactiveLoginIsEmpty ==
    LoginInactive => (bus_id = NULL /\ ret = NONE4 /\ exc = "none")

W_C9_InactiveLoginWithFields ==
    LoginInactive /\ lastResp.rich /\ session_id # NULL /\ bus_id = NULL

(* the last call was a login that failed or whose body lacks a part of the *)
(* Students / MatchedBusData / MatchedRoute structure                      *)
LoginFailedOrMalformed ==
    /\ lastCall = "login_user"
    /\ \/ lastResp.kind \in LoginFailureKinds
       \/ lastResp.kind = "ok" /\ lastResp.shape \in LoginBadShapes
       \/ lastResp.kind = "ok" /\ lastResp.shape = "ok"
            /\ lastResp.route_kind \in {"missing", "null"}

(* C10: a failed or malformed login raises nothing to its caller; when the *)
(* request failed or Students or MatchedBusData is missing it returns four *)
(* nulls and leaves the vehicle id absent.                                 *)
C10_LoginNeverRaises ==
    LoginFailedOrMalformed =>
        /\ exc = "none"
        /\ (lastResp.kind \in LoginFailureKinds \/ lastResp.shape \in LoginBadShapes)
               => (ret = NONE4 /\ bus_id = NULL)

(* the last call was a position poll answered with a status other than 200 *)
(* or with IsActive false                                                  *)
PollRejected ==
    /\ lastCall = "vehicledata"
    /\ \/ lastResp.kind = "status_error"
       \/ lastResp.kind = "ok" /\ lastResp.shape = "ok" /\ ~lastResp.IsActive

(* the last call was a position poll answered 200 with IsActive true *)
PollActive == lastCall = "vehicledata" /\ FetchReportedActive

(* C11: vehicledata clears the bus id and returns no sample whenever the   *)
(* status is not 200 or IsActive is false, whether or not the body carries *)
(* coordinates; on a 200 answer with IsActive true it returns the position *)
(* fields of the body as they are (the heading unconverted) and leaves the *)
(* bus id as it was.                                                       *)
C11_VehicledataFlagDecides ==
    [][ /\ PollRejected' => (bus_id' = NULL /\ ret' = NONE4 /\ exc' = "none")
        /\ PollActive' => /\ ret' = lastResp'.sample
                          /\ exc' = "none"
                          /\ bus_id' = bus_id ]_vars

W_C11_InactiveWithCoordinates ==
    /\ PollRejected /\ lastResp.kind = "ok" /\ lastResp.rich
    /\ session_id # NULL /\ bus_id = NULL /\ ret = NONE4

(* the last call was a position poll whose request failed in transport     *)
(* (connection error, timeout) or whose body lacks StuBusData              *)
PollBroken ==
    /\ lastCall = "vehicledata"
    /\ \/ lastResp.kind = "transport_error"
       \/ lastResp.kind = "ok" /\ lastResp.shape \in VehicleBadShapes

(* C12: a transport failure or a body with missing fields on a vehicledata *)
(* poll of track_bus is not fatal: nothing is raised out of vehicledata,   *)
(* the process does not end, the poll yields no sample and the bus id is   *)
(* cleared.                                                                *)
C12_PollFailureNotFatal ==
    PollBroken => /\ exc = "none"
                  /\ pc \notin {"done", "fatal", "crashed"}
                  /\ ret = NONE4
                  /\ bus_id = NULL

(* the last call was recentvehicledata, answered 200 with a body whose     *)
(* history is missing, empty or of one entry                               *)
RecentHistoryShort ==
    /\ lastCall = "recentvehicledata" /\ lastResp.kind = "ok"
    /\ \/ lastResp.shape = "no_BusData"
       \/ lastResp.shape = "ok" /\ ~lastResp.rich

(* C13: recentvehicledata returns the entry at index 1 when the history    *)
(* has two entries or more; a missing, empty or one-entry history is "no   *)
(* valid data": nothing is raised, the bus id is cleared and no sample is  *)
(* returned.                                                               *)
C13_RecentHistoryBoundsChecked ==
    /\ RecentHistoryShort => (exc = "none" /\ bus_id = NULL /\ ret = NONE4)
    /\ ( /\ lastCall = "recentvehicledata" /\ lastResp.kind = "ok"
         /\ lastResp.shape = "ok" /\ lastResp.rich /\ exc = "none" )
       => /\ ret[1] = lastResp.sample[1]
          /\ ret[2] = lastResp.sample[2]
          /\ ret[4] = lastResp.sample[4]

(* C14: student_scans always ends in a list: the scan list of the body     *)
(* when it has one, and the empty list, never None and never an exception, *)
(* for a status other than 200, a body that does not parse and every       *)
(* shape mismatch.                                                         *)
C14_ScansDegradeToEmpty ==
    (lastCall = "student_scans" /\ lastResp.kind # "transport_error")
    => /\ exc = "none"
       /\ ret # NULL
       /\ ( \/ lastResp.kind \in {"status_error", "bad_json"}
            \/ lastResp.shape = "mismatch" ) => ret = Some(<<>>)

(* C18: no exception escapes main: whatever is raised below it is caught   *)
(* by one of its except clauses, logged, and ends the process.             *)
C18_NoExceptionEscapesMain == pc # "crashed"

(* C20: track_bus issues a vehicledata request only while the bus id is    *)
(* set.                                                                    *)
C20_PollOnlyWithBusId == pc = "vehicledata" => bus_id # NULL

(* the last call was get_all_school_list and no interrupt has come since *)
SchoolListCalled == lastCall = "get_all_school_list" /\ interrupted_at = "none"

(* C15: get_all_school_list never raises: a failed request, an error       *)
(* status and a body without a Clients list give the empty list, a body    *)
(* with Clients gives that list.                                           *)
C15_SchoolListNeverRaises ==
    SchoolListCalled
    => /\ exc = "none"
       /\ ret = IF lastResp.kind = "ok" /\ lastResp.shape = "ok"
                THEN Some(lastResp.Clients) ELSE Some(<<>>)

(* C16: when the configuration has no school fields and the directory      *)
(* gives no school, main reports the failure and ends at once: there was   *)
(* no login, no position request, and track_bus was not entered.           *)
C16_NoSchoolsNoTracking ==
    school_list = Some(<<>>)
    => /\ pc = "no_schools"
       /\ lastCall = "get_all_school_list"
       /\ nVehicledata = 0
       /\ session_id = NULL /\ bus_id = NULL

W_C16_DirectoryEmpty ==
    /\ pc = "no_schools" /\ config_school = NULL
    /\ school_list = Some(<<>>) /\ lastResp.kind = "ok" /\ lastResp.shape = "ok"

(* C17: a KeyboardInterrupt delivered at any position of main is caught by *)
(* main's handler: the run ends logged as a user request, not as a fatal   *)
(* error and not uncaught.                                                 *)
C17_InterruptExitsCleanly ==
    [][ /\ pc \in Running => ENABLED Interrupt
        /\ interrupted_at' # "none" => (pc' = "interrupted" /\ exc' = "KeyboardInterrupt")
        /\ pc = "interrupted" => pc' = "interrupted" ]_vars

W_C17_InterruptedInBackoff ==
    pc = "interrupted" /\ interrupted_at = "sleep300" /\ lastCall = "login_user"

(* a request was sent and neither an answer nor a timeout has come *)
RequestPending == pc = "hung"

(* C19: every request has a timeout, so a request that is never answered   *)
(* does not hold main for ever: a pending request is eventually over.      *)
C19_PendingRequestEnds == RequestPending ~> ~RequestPending

(* the sixteen compass points in clockwise order from north *)
CompassPoints ==
    <<"N", "NNE", "NE", "ENE", "E", "ESE", "SE", "SSE",
      "S", "SSW", "SW", "WSW", "W", "WNW", "NW", "NNW">>

(* degrees_to_direction has returned the compass point of the bearing d *)
DirectionReturned(d) ==
    pc = "returned" /\ lastCall = "degrees_to_direction" /\ heading = Some(d)

C24_HaversineReflexive ==
    ( /\ pc = "returned" /\ lastCall = "haversine_distance"
      /\ haversine_args[1] = haversine_args[3]
      /\ haversine_args[2] = haversine_args[4] )
    => distance_to_target = Some(0)

W_C24_SamePointAtPole ==
    /\ pc = "returned" /\ lastCall = "haversine_distance"
    /\ haversine_args = <<Some(9000000), Some(0), Some(9000000), Some(0)>>
    /\ distance_to_target = Some(0)

(* the step is a call of vehicledata, recentvehicledata or student_scans *)
FetchCallStep ==
    lastCall' \in {"vehicledata", "recentvehicledata", "student_scans"}

(* C25: vehicledata, recentvehicledata and student_scans write no session  *)
(* field and no route or stop field, whatever the server answers and       *)
(* whether they return or raise: of the tracker they change at most the    *)
(* bus id.                                                                 *)
C25_OnlyLoginWritesSession ==
    [][ FetchCallStep
        => UNCHANGED <<session_id, login_guid, record_id, route_number,
                       stop_latitude, stop_longitude>> ]_vars

W_C25_StopKeptWhenBusCleared ==
    /\ lastCall = "recentvehicledata" /\ lastResp.shape = "no_BusData"
    /\ bus_id = NULL /\ session_id # NULL
    /\ stop_latitude # NULL /\ stop_longitude # NULL

(* C26: track_bus waits between any two requests: a login that follows a   *)
(* request comes after a sleep of 300 seconds and every vehicledata call   *)
(* comes after a sleep of 33 seconds.                                      *)
C26_WaitBetweenRequests ==
    /\ (pc = "login" /\ lastCall # "none") => slept = LOGIN_BACKOFF_SECONDS
    /\ pc = "vehicledata" => slept = POLL_INTERVAL_SECONDS
    /\ (pc \in {"sleep300", "eval", "sleep33"}) => slept = 0

W_C26_WaitedBetweenPolls ==
    pc = "vehicledata" /\ lastCall = "vehicledata" /\ slept = POLL_INTERVAL_SECONDS

C27_CooperationLeadsToArrival ==
    (server = "cooperating") ~> (pc = "done")

====
